---- MODULE Spec2Model ----
(***************************************************************************)
(* Model of @wymp/auth-gateway-header-decoder (src/src/index.ts).          *)
(*                                                                         *)
(* getAuthGatewayHeaderDecoder(pubkey) returns a middleware that reads the *)
(* headers x-auth-info, x-auth-info-signed and x-auth-info-algorithm of a  *)
(* request, verifies (jwt.verify) or parses (JSON.parse) the first one,    *)
(* attaches the result as req.auth and calls next(), or calls next(err).   *)
(*                                                                         *)
(* A request lives through three positions: "idle" (no request), "pending" *)
(* (a request and a continuation exist, the middleware has not run) and    *)
(* "done" (the middleware has returned or thrown).                         *)
(***************************************************************************)
EXTENDS Integers, Sequences, FiniteSets

VARIABLES
    pubkey,        \* the key captured by the closure (index.ts:15)
    now,           \* the clock jwt.verify reads (seconds)
    pc,            \* "idle" | "pending" | "done"
    req,           \* the three headers of the request
    nxt,           \* how the continuation behaves when it is called
    auth,          \* the `auth` property of the request object
    calls,         \* the invocations of `next`, in order
    escaped,       \* an exception left the middleware
    verifyCalled,  \* jwt.verify was called
    verifyAlgs,    \* the `algorithms` option it was called with
    parseCalled    \* JSON.parse was called

vars == <<pubkey, now, pc, req, nxt, auth, calls, escaped,
          verifyCalled, verifyAlgs, parseCalled>>

--------------------------------------------------------------------------
(* Bounds and domains *)

\* The clock runs from 0 to MaxClock.
MaxClock == 2

\* "no such claim" for nbf / exp
NoTime == -1

\* Key material.  A token signed with the private half of pair k verifies
\* against the public half of pair k.  NoKey is the empty string.
NoKey == ""
KeyPairs == {"good", "bad"}
PubKeys == KeyPairs \cup {NoKey}

\* Objects: the claims object handed to jwt.sign or JSON.stringify, and the
\* payload a token decodes to.  iat, nbf, exp and aud are the registered claims
\* jwt.sign adds to the object; NoTime and "" stand for a property that is
\* not there.
Object(c, uid) ==
    [c |-> c, uid |-> uid, iat |-> NoTime, nbf |-> NoTime, exp |-> NoTime, aud |-> ""]
NoValue == Object("", "")
AuthData == Object("abcde12345", "ccccdddd")
OtherData == Object("zyxwv98765", "eeeeffff")
Claims == {AuthData, OtherData}

\* Algorithms a token may declare in its own header.
TokenAlgs == {"ES256", "HS256", "none"}

\* nbf / exp of a token, each there or not, in any order: jwt.sign takes
\* notBefore and expiresIn as they come.
TokenWindows == ({NoTime} \cup (1..MaxClock)) \X ({NoTime} \cup (1..MaxClock))

\* iat / aud of a token: signed with noTimestamp and no audience, or with the
\* timestamp and the audience of the e2e tests
TokenExtras == {<<NoTime, "">>, <<0, "some-audience">>}

\* The body of the primary header, apart from surrounding whitespace.
\* "empty": nothing.  "garbage": text such as "asdfasdf".  "json": the
\* JSON text of a claims object.  "jwt": what jwt.sign(claims, key, options)
\* returns.  "badpayload": three base64url parts with a JWT header whose
\* payload part is not JSON.
PlainBody(kind, c) ==
    [kind |-> kind, alg |-> "", key |-> NoKey, claims |-> c,
     iat |-> NoTime, nbf |-> NoTime, exp |-> NoTime, aud |-> ""]
EmptyBody == PlainBody("empty", NoValue)
GarbageBody == PlainBody("garbage", NoValue)
BadPayloadBody == PlainBody("badpayload", NoValue)
JsonBody(c) == PlainBody("json", c)
JwtBody(a, k, c, w, x) ==
    [kind |-> "jwt", alg |-> a, key |-> k, claims |-> c,
     iat |-> x[1], nbf |-> w[1], exp |-> w[2], aud |-> x[2]]

JwtBodies ==
    { JwtBody(a, k, c, w, x) : a \in TokenAlgs \ {"none"}, k \in KeyPairs,
                               c \in Claims, w \in TokenWindows, x \in TokenExtras }
    \cup { JwtBody("none", NoKey, c, w, x) : c \in Claims, w \in TokenWindows,
                                             x \in TokenExtras }

Bodies ==
    {EmptyBody, GarbageBody, BadPayloadBody} \cup { JsonBody(c) : c \in Claims }
        \cup JwtBodies

\* The payload of a token: the claims object with the registered claims
\* jwt.sign added to it.
DecodedPayload(t) ==
    [t.claims EXCEPT !.iat = t.iat, !.nbf = t.nbf, !.exp = t.exp, !.aud = t.aud]

\* A header: absent (req.header returns undefined) or a string.
\* The primary header's string is a body with or without surrounding blanks.
AbsentAuth == [present |-> FALSE, ws |-> FALSE, body |-> EmptyBody]
AuthHeaders ==
    {AbsentAuth} \cup { [present |-> TRUE, ws |-> w, body |-> b] : w \in BOOLEAN, b \in Bodies }

AbsentHdr == [present |-> FALSE, value |-> ""]
Hdr(v) == [present |-> TRUE, value |-> v]
SignedHeaders == {AbsentHdr} \cup { Hdr(v) : v \in {"", "0", "1", "false"} }
AlgoHeaders == {AbsentHdr} \cup { Hdr(v) : v \in {"", "ES256", "HS256", "none", "FOO"} }

Requests == [authH : AuthHeaders, signedH : SignedHeaders, algoH : AlgoHeaders]

\* Errors
NoErr == [name |-> "", status |-> 0, subcode |-> "", nullish |-> FALSE]
BadRequest(subcode) ==
    [name |-> "BadRequest", status |-> 400, subcode |-> subcode, nullish |-> FALSE]
Unauthorized(subcode) ==
    [name |-> "Unauthorized", status |-> 401, subcode |-> subcode, nullish |-> FALSE]
\* errors of other libraries carry no status and no subcode; a thrown value
\* without a `name` property (a string, a plain object) has the name ""
ForeignError(name) == [name |-> name, status |-> 0, subcode |-> "", nullish |-> FALSE]
\* `throw null` / `throw undefined`
Nullish == [name |-> "", status |-> 0, subcode |-> "", nullish |-> TRUE]

\* The result of evaluating an expression: a value or a thrown error.
Return(v) == [thrown |-> FALSE, err |-> NoErr, value |-> v]
Throw(e) == [thrown |-> TRUE, err |-> e, value |-> NoValue]

\* What a continuation may throw: null or undefined, a value without a name,
\* an Error, or an error carrying one of the names the catch block maps.
ThrownValues ==
    {Nullish} \cup { ForeignError(n) : n \in {"", "Error", "JsonWebTokenError",
                                              "TokenExpiredError"} }

\* The continuation: does next() throw, and what; does next(err) throw.
NextBehaviours ==
    { n \in [throwsOnSuccess : BOOLEAN, throwsOnError : BOOLEAN, thrown : ThrownValues] :
        \/ n.thrown = ForeignError("Error")
        \/ n.throwsOnSuccess /\ ~n.throwsOnError }

NoReq == [authH |-> AbsentAuth, signedH |-> AbsentHdr, algoH |-> AbsentHdr]
NoNext == [throwsOnSuccess |-> FALSE, throwsOnError |-> FALSE,
           thrown |-> ForeignError("Error")]
Unset == [set |-> FALSE, value |-> NoValue]

--------------------------------------------------------------------------
(* JavaScript primitives the middleware uses *)

\* truthiness of `string | undefined`: undefined and "" are falsy
Truthy(h) == h.present /\ h.value # ""

\* Number(string) on the strings a header takes here; NaN for the others
NaN == "NaN"
Number(v) ==
    CASE v = "1" -> "1"
      [] v = "0" -> "0"
      [] v = ""  -> "0"
      [] OTHER   -> NaN

\* Boolean(number): 0 and NaN are falsy
Boolean(n) == n # "0" /\ n # NaN

\* req.header(headerName) || "" : the absent header becomes the empty string
OrEmpty(h) == IF h.present THEN h ELSE [present |-> TRUE, ws |-> FALSE, body |-> EmptyBody]

\* !authHeader : the string is empty
IsEmptyString(h) == ~h.ws /\ h.body.kind = "empty"

\* authHeader.trim() : surrounding blanks removed
Trim(h) == [h EXCEPT !.ws = FALSE]

\* JSON.parse(text): surrounding blanks are skipped; anything but a JSON
\* text throws a SyntaxError
JSON_parse(h) ==
    IF h.body.kind = "json" THEN Return(h.body.claims)
    ELSE Throw(ForeignError("SyntaxError"))

\* jwt.verify(token, key, {algorithms}) of jsonwebtoken 8.x, in its order:
\* three parts that decode (else JsonWebTokenError; a payload that is not JSON
\* under a JWT header raises the SyntaxError of the decoder's JSON.parse),
\* signature presence against key presence, declared algorithm against the
\* allowed list, signature, nbf, exp.  It returns the decoded payload, the
\* registered claims included.
jwt_verify(h, key, algorithms, clock) ==
    LET t == h.body
        hasSignature == t.alg # "none"
        payload == DecodedPayload(t)
    IN  IF h.ws \/ t.kind \notin {"jwt", "badpayload"}
        THEN Throw(ForeignError("JsonWebTokenError"))
        ELSE IF t.kind = "badpayload" THEN Throw(ForeignError("SyntaxError"))
        ELSE IF ~hasSignature /\ key # NoKey THEN Throw(ForeignError("JsonWebTokenError"))
        ELSE IF hasSignature /\ key = NoKey THEN Throw(ForeignError("JsonWebTokenError"))
        ELSE IF t.alg \notin algorithms THEN Throw(ForeignError("JsonWebTokenError"))
        ELSE IF hasSignature /\ t.key # key THEN Throw(ForeignError("JsonWebTokenError"))
        ELSE IF payload.nbf # NoTime /\ payload.nbf > clock
        THEN Throw(ForeignError("NotBeforeError"))
        ELSE IF payload.exp # NoTime /\ clock >= payload.exp
        THEN Throw(ForeignError("TokenExpiredError"))
        ELSE Return(payload)

--------------------------------------------------------------------------
(* The middleware, index.ts:15-103 *)

\* index.ts:81-95
valid == {"HS256", "HS384", "HS512", "RS256", "RS384", "RS512",
          "ES256", "ES384", "ES512", "PS256", "PS384", "PS512", "none"}

\* index.ts:80-103: TRUE when verifyAlgorithm throws
verifyAlgorithm(algo) == algo \notin valid

\* index.ts:27
BadSignedHeader(signedHeader) ==
    Truthy(signedHeader) /\ ~(signedHeader.value = "1" \/ signedHeader.value = "0")

\* Boolean(signedHeader) in place of Boolean(Number(signedHeader)): "0" is truthy
Signed_StringTruthiness(signedHeader) ==
    IF Truthy(signedHeader) THEN signedHeader.value # "" ELSE TRUE

\* index.ts:36
Signed(signedHeader) ==
    IF Truthy(signedHeader) THEN Boolean(Number(signedHeader.value)) ELSE TRUE

\* another default algorithm
ResolveAlgorithm_DefaultHS(algoHeader) ==
    IF Truthy(algoHeader) THEN algoHeader.value ELSE "HS256"

\* index.ts:39
ResolveAlgorithm(algoHeader) == IF Truthy(algoHeader) THEN algoHeader.value ELSE "ES256"

\* the emptiness test without the trim
NoAuthHeader_NoTrim(authHeader) == IsEmptyString(authHeader)

\* index.ts:43
NoAuthHeader(authHeader) ==
    IsEmptyString(authHeader) \/ IsEmptyString(Trim(authHeader))

\* every supported algorithm allowed, not the resolved one alone
VerifyAlgorithms_All(algorithm) == valid

\* index.ts:54: the `algorithms` option given to jwt.verify
VerifyAlgorithms(algorithm) == {algorithm}

\* index.ts:22-55: the body of the try block up to the assignment of req.auth;
\* what is assigned, or what is thrown
TryBody(r, key, clock) ==
    LET authHeader == OrEmpty(r.authH)
        signedHeader == r.signedH
        algoHeader == r.algoH
    IN  IF BadSignedHeader(signedHeader)
        THEN Throw(BadRequest("REQ-AUTH-BAD-SIGNED-HEADER"))
        ELSE LET signed == Signed(signedHeader)
                 algorithm == ResolveAlgorithm(algoHeader)
             IN  IF verifyAlgorithm(algorithm)
                 THEN Throw(BadRequest("REQ-AUTH-UNSUPPORTED-ALGORITHM"))
                 ELSE IF NoAuthHeader(authHeader)
                 THEN Throw(Unauthorized("REQ-AUTH-NO-HEADER"))
                 ELSE IF signed
                 THEN jwt_verify(authHeader, key, VerifyAlgorithms(algorithm), clock)
                 ELSE JSON_parse(authHeader)

\* Which of the two decoders the try block reaches
ReachesDecode(r) ==
    /\ ~BadSignedHeader(r.signedH)
    /\ ~verifyAlgorithm(ResolveAlgorithm(r.algoH))
    /\ ~NoAuthHeader(OrEmpty(r.authH))

\* the expiry branch missing: an expired token falls under the invalid ones
MapError_ExpiredAsInvalid(e) ==
    IF e.name # ""
    THEN IF e.name \in {"JsonWebTokenError", "TokenExpiredError"}
         THEN BadRequest("REQ-AUTH-INVALID-JWT")
         ELSE e
    ELSE e

\* the JsonWebTokenError branch missing: the library's error goes through
MapError_NoInvalidBranch(e) ==
    IF e.name # ""
    THEN IF e.name = "TokenExpiredError" THEN Unauthorized("REQ-AUTH-EXPIRED-JWT")
         ELSE e
    ELSE e

\* index.ts:60-74: the catch block's mapping of the caught value
MapError(e) ==
    IF e.name # ""
    THEN IF e.name = "JsonWebTokenError" THEN BadRequest("REQ-AUTH-INVALID-JWT")
         ELSE IF e.name = "TokenExpiredError" THEN Unauthorized("REQ-AUTH-EXPIRED-JWT")
         ELSE e
    ELSE e

\* index.ts:61: reading `e.name` of null or undefined raises a TypeError
\* inside the catch block, which leaves the handler before next(err)
CatchRaises(e) == e.nullish

SuccessCall == [isErr |-> FALSE, err |-> NoErr]
ErrorCall(e) == [isErr |-> TRUE, err |-> e]

--------------------------------------------------------------------------
(* State machine *)

Init ==
    /\ pubkey \in PubKeys
    /\ now = 0
    /\ pc = "idle"
    /\ req = NoReq
    /\ nxt = NoNext
    /\ auth = Unset
    /\ calls = <<>>
    /\ escaped = FALSE
    /\ verifyCalled = FALSE
    /\ verifyAlgs = {}
    /\ parseCalled = FALSE

\* the shape of the state
TypeOK ==
    /\ pubkey \in PubKeys
    /\ now \in 0..MaxClock
    /\ pc \in {"idle", "pending", "done"}
    /\ req \in Requests
    /\ nxt \in NextBehaviours
    /\ auth.set \in BOOLEAN
    /\ [auth.value EXCEPT !.iat = NoTime, !.nbf = NoTime, !.exp = NoTime, !.aud = ""]
          \in Claims \cup {NoValue}
    /\ Len(calls) <= 2
    /\ \A i \in DOMAIN calls : calls[i].isErr \in BOOLEAN
    /\ escaped \in BOOLEAN
    /\ verifyCalled \in BOOLEAN
    /\ verifyAlgs \subseteq valid
    /\ parseCalled \in BOOLEAN

\* index.ts:15: a decoder is constructed around another key
getAuthGatewayHeaderDecoder(k) ==
    /\ pc = "idle"
    /\ k # pubkey
    /\ pubkey' = k
    /\ UNCHANGED <<now, pc, req, nxt, auth, calls, escaped,
                   verifyCalled, verifyAlgs, parseCalled>>

\* time passes between requests
Tick ==
    /\ pc = "idle"
    /\ now < MaxClock
    /\ now' = now + 1
    /\ UNCHANGED <<pubkey, pc, req, nxt, auth, calls, escaped,
                   verifyCalled, verifyAlgs, parseCalled>>

\* e2e.spec.ts:54-60: a request object and a continuation come into being
CreateRequest(r, n) ==
    /\ pc = "idle"
    /\ pc' = "pending"
    /\ req' = r
    /\ nxt' = n
    /\ UNCHANGED <<pubkey, now, auth, calls, escaped,
                   verifyCalled, verifyAlgs, parseCalled>>

\* index.ts:20-77: one call of the middleware, whole
Handler ==
    /\ pc = "pending"
    /\ LET res == TryBody(req, pubkey, now)
           decode == ReachesDecode(req)
           signed == Signed(req.signedH)
       IN  /\ verifyCalled' = (decode /\ signed)
           /\ verifyAlgs' = IF decode /\ signed
                            THEN VerifyAlgorithms(ResolveAlgorithm(req.algoH))
                            ELSE {}
           /\ parseCalled' = (decode /\ ~signed)
           /\ IF res.thrown
              THEN \* caught at index.ts:59 before req.auth is assigned
                   /\ auth' = Unset
                   /\ calls' = <<ErrorCall(MapError(res.err))>>
                   /\ escaped' = nxt.throwsOnError
              ELSE /\ auth' = [set |-> TRUE, value |-> res.value]
                   /\ IF nxt.throwsOnSuccess
                      THEN \* next() at index.ts:58 throws inside the try block:
                           \* the catch block calls next(err) at index.ts:75
                           /\ IF CatchRaises(nxt.thrown)
                              THEN /\ calls' = <<SuccessCall>>
                                   /\ escaped' = TRUE
                              ELSE /\ calls' = <<SuccessCall,
                                                 ErrorCall(MapError(nxt.thrown))>>
                                   /\ escaped' = nxt.throwsOnError
                      ELSE /\ calls' = <<SuccessCall>>
                           /\ escaped' = FALSE
    /\ pc' = "done"
    /\ UNCHANGED <<pubkey, now, req, nxt>>

\* the request is finished with and discarded
Discard ==
    /\ pc = "done"
    /\ pc' = "idle"
    /\ req' = NoReq
    /\ nxt' = NoNext
    /\ auth' = Unset
    /\ calls' = <<>>
    /\ escaped' = FALSE
    /\ verifyCalled' = FALSE
    /\ verifyAlgs' = {}
    /\ parseCalled' = FALSE
    /\ UNCHANGED <<pubkey, now>>

Next ==
    \/ pc = "idle" /\ \E k \in PubKeys : getAuthGatewayHeaderDecoder(k)
    \/ Tick
    \/ pc = "idle" /\ \E r \in Requests, n \in NextBehaviours : CreateRequest(r, n)
    \/ Handler
    \/ Discard

Spec == Init /\ [][Next]_vars

--------------------------------------------------------------------------
(* Vocabulary of the properties: what the specification says of a request *)

Done == pc = "done"

\* <name>-signed is absent, "0" or "1"
SignedHeaderWellFormed == ~req.signedH.present \/ req.signedH.value \in {"0", "1"}

\* <name>-algorithm is absent or names a supported algorithm
AlgoHeaderWellFormed == ~req.algoH.present \/ req.algoH.value \in valid

\* signed mode: <name>-signed is absent or "1"
SignedMode == ~req.signedH.present \/ req.signedH.value = "1"

\* unsigned mode: <name>-signed is "0"
UnsignedMode == req.signedH.present /\ req.signedH.value = "0"

\* the algorithm the header names, ES256 when there is no header
ResolvedAlgorithm == IF req.algoH.present THEN req.algoH.value ELSE "ES256"

\* the primary header is absent, empty or blanks only
PrimaryBlank == ~req.authH.present \/ req.authH.body.kind = "empty"

\* the primary header is a compact token, nothing around it
PrimaryIsToken == req.authH.present /\ ~req.authH.ws /\ req.authH.body.kind = "jwt"

\* ... signed by the counterpart of the configured key under the resolved algorithm
CorrectlySigned ==
    /\ PrimaryIsToken
    /\ req.authH.body.alg = ResolvedAlgorithm
    /\ req.authH.body.alg # "none"
    /\ pubkey # NoKey
    /\ req.authH.body.key = pubkey

\* the clock is inside the token's validity window
InWindow ==
    /\ req.authH.body.nbf = NoTime \/ req.authH.body.nbf <= now
    /\ req.authH.body.exp = NoTime \/ now < req.authH.body.exp

\* the clock is at or past the token's expiry
PastExpiry == req.authH.body.exp # NoTime /\ now >= req.authH.body.exp

ErrorCalls == { i \in DOMAIN calls : calls[i].isErr }
SuccessCalls == { i \in DOMAIN calls : ~calls[i].isErr }

\* next was called with an error of this subcode and status
Reported(subcode, status) ==
    \E i \in ErrorCalls : calls[i].err.subcode = subcode /\ calls[i].err.status = status

\* next was called once, with an error of this subcode and status
ReportedOnly(subcode, status) ==
    /\ Len(calls) = 1
    /\ calls[1].isErr
    /\ calls[1].err.subcode = subcode
    /\ calls[1].err.status = status

--------------------------------------------------------------------------
(* Properties *)

\* C1: when next has been called with an error, the call of the middleware
\* has set no `auth` property on the request.
C1_NoAuthOnError == (Done /\ ErrorCalls # {}) => ~auth.set

\* C2: every call of the middleware invokes next exactly once.
C2_NextExactlyOnce == Done => Len(calls) = 1

\* C3: a <name>-signed header that is present and is neither "0" nor "1" is
\* reported as REQ-AUTH-BAD-SIGNED-HEADER / 400, whatever the other headers.
C3_BadSignedReported ==
    (Done /\ req.signedH.present /\ req.signedH.value \notin {"0", "1"})
        => Reported("REQ-AUTH-BAD-SIGNED-HEADER", 400)

\* C4: with <name>-signed absent, "0" or "1", a <name>-algorithm header that is
\* present and outside the supported set is reported as
\* REQ-AUTH-UNSUPPORTED-ALGORITHM / 400, also with no primary header and also
\* in unsigned mode.
C4_UnsupportedReported ==
    (Done /\ SignedHeaderWellFormed /\ req.algoH.present /\ req.algoH.value \notin valid)
        => Reported("REQ-AUTH-UNSUPPORTED-ALGORITHM", 400)

\* C5: a primary header that is absent, empty or blanks only, with well-formed
\* signed and algorithm headers, is reported as REQ-AUTH-NO-HEADER / 401 in
\* signed and in unsigned mode, and neither jwt.verify nor JSON.parse is called.
C5_NoHeaderReported ==
    (Done /\ PrimaryBlank /\ SignedHeaderWellFormed /\ AlgoHeaderWellFormed)
        => /\ ReportedOnly("REQ-AUTH-NO-HEADER", 401)
           /\ ~verifyCalled
           /\ ~parseCalled
           /\ ~auth.set

\* C5 case: a header of blanks only, in unsigned mode
C5_Witness ==
    /\ Done /\ UnsignedMode /\ AlgoHeaderWellFormed
    /\ req.authH.present /\ req.authH.ws /\ req.authH.body.kind = "empty"
    /\ ReportedOnly("REQ-AUTH-NO-HEADER", 401)

\* the clock has reached the token's nbf, when it has one
NbfReached == req.authH.body.nbf = NoTime \/ req.authH.body.nbf <= now

\* the token carries a registered claim that jwt.sign added to the object
HasRegisteredClaims == DecodedPayload(req.authH.body) # req.authH.body.claims

\* C6, as stated: in signed mode a token signed by the counterpart of the
\* configured key under the resolved algorithm, inside its validity window, is
\* attached as an `auth` equal to the claims object that was signed, and
\* next() is called exactly once.
C6_AuthEqualsClaimsObject ==
    (Done /\ SignedMode /\ AlgoHeaderWellFormed /\ CorrectlySigned /\ InWindow)
        => /\ auth = [set |-> TRUE, value |-> req.authH.body.claims]
           /\ Cardinality(SuccessCalls) = 1
           /\ calls[1] = SuccessCall

\* C6, amended: ... is attached as an `auth` that is the token's decoded
\* payload: every claim of the signed object with its value, together with
\* the registered claims (iat, nbf, exp, aud) the token carries, so equal to
\* the claims object exactly when the token carries none; next() is called
\* exactly once.
C6_ValidTokenAttached ==
    (Done /\ SignedMode /\ AlgoHeaderWellFormed /\ CorrectlySigned /\ InWindow)
        => /\ auth.set
           /\ auth.value.c = req.authH.body.claims.c
           /\ auth.value.uid = req.authH.body.claims.uid
           /\ auth.value.iat = req.authH.body.iat
           /\ auth.value.nbf = req.authH.body.nbf
           /\ auth.value.exp = req.authH.body.exp
           /\ auth.value.aud = req.authH.body.aud
           /\ (auth.value = req.authH.body.claims) <=> ~HasRegisteredClaims
           /\ Cardinality(SuccessCalls) = 1
           /\ calls[1] = SuccessCall

\* C6 case: no signed and no algorithm header, a token with iat, aud, nbf and
\* exp around the clock, accepted with its claims and its registered claims
C6_Witness ==
    /\ Done /\ ~req.signedH.present /\ ~req.algoH.present
    /\ CorrectlySigned /\ InWindow
    /\ req.authH.body.nbf # NoTime /\ req.authH.body.exp # NoTime
    /\ req.authH.body.aud = "some-audience"
    /\ req.authH.body.claims = OtherData
    /\ auth.set /\ auth.value.uid = "eeeeffff" /\ auth.value.aud = "some-audience"
    /\ auth.value # OtherData
    /\ calls = <<SuccessCall>>

\* C7, as stated: in signed mode a correctly signed token past its expiry is
\* reported as REQ-AUTH-EXPIRED-JWT / 401 and never as REQ-AUTH-INVALID-JWT / 400.
C7_EveryExpiredReported ==
    (Done /\ SignedMode /\ AlgoHeaderWellFormed /\ CorrectlySigned /\ PastExpiry)
        => /\ ReportedOnly("REQ-AUTH-EXPIRED-JWT", 401)
           /\ ~Reported("REQ-AUTH-INVALID-JWT", 400)
           /\ ~auth.set

\* C7, amended: in signed mode a correctly signed token past its expiry, whose
\* nbf (if it has one) the clock has reached, is reported as
\* REQ-AUTH-EXPIRED-JWT / 401; a correctly signed token past its expiry is
\* never reported as REQ-AUTH-INVALID-JWT / 400 and never attached.
C7_ExpiredReported ==
    (Done /\ SignedMode /\ AlgoHeaderWellFormed /\ CorrectlySigned /\ PastExpiry)
        => /\ NbfReached => ReportedOnly("REQ-AUTH-EXPIRED-JWT", 401)
           /\ ~Reported("REQ-AUTH-INVALID-JWT", 400)
           /\ SuccessCalls = {}
           /\ ~auth.set

\* C7 case: the token expired, its nbf is behind, the key is right, the error
\* is the expiry one
C7_Witness ==
    /\ Done /\ SignedMode /\ AlgoHeaderWellFormed /\ CorrectlySigned /\ PastExpiry
    /\ req.authH.body.nbf # NoTime /\ NbfReached
    /\ calls = <<ErrorCall(Unauthorized("REQ-AUTH-EXPIRED-JWT"))>>

\* a token signed by another key under the resolved algorithm
C8_WrongKey ==
    /\ PrimaryIsToken
    /\ req.authH.body.alg = ResolvedAlgorithm
    /\ req.authH.body.alg # "none"
    /\ req.authH.body.key # pubkey
\* a value that is no signed token at all
C8_NotAToken ==
    req.authH.present /\ req.authH.body.kind \in {"garbage", "json", "badpayload"}
\* a value that has not the compact form of a token: "asdfasdf", the JSON of
\* the claims
C8_NotCompact == req.authH.present /\ req.authH.body.kind \in {"garbage", "json"}

C9_AlgorithmPinned ==
    (/\ Done /\ SignedMode
     /\ ~req.algoH.present \/ req.algoH.value # ""
     /\ req.authH.present /\ req.authH.body.kind = "jwt"
     /\ req.authH.body.alg # ResolvedAlgorithm)
        => SuccessCalls = {} /\ ~auth.set

\* C9 case: an unsigned token declaring `none`, a decoder without a key,
\* ES256 resolved: jwt.verify is asked for ES256 alone and refuses
C9_Witness ==
    /\ Done /\ SignedMode /\ ~req.algoH.present
    /\ PrimaryIsToken /\ req.authH.body.alg = "none" /\ InWindow
    /\ pubkey = NoKey
    /\ verifyCalled /\ verifyAlgs = {"ES256"}
    /\ calls = <<ErrorCall(BadRequest("REQ-AUTH-INVALID-JWT"))>>

\* C10: in unsigned mode, with a well-formed algorithm header, the JSON of the
\* primary header is parsed and attached as `auth`, next() is called, and
\* jwt.verify is not called: the key plays no part.
C10_UnsignedAttached ==
    (/\ Done /\ UnsignedMode /\ AlgoHeaderWellFormed
     /\ req.authH.present /\ req.authH.body.kind = "json")
        => /\ ~verifyCalled
           /\ parseCalled
           /\ auth = [set |-> TRUE, value |-> req.authH.body.claims]
           /\ Cardinality(SuccessCalls) = 1
           /\ calls[1] = SuccessCall

\* C10 case: the decoder's key is the empty string and the JSON is accepted
C10_Witness ==
    /\ Done /\ UnsignedMode /\ req.algoH = Hdr("HS256")
    /\ req.authH.present /\ req.authH.body.kind = "json"
    /\ pubkey = NoKey
    /\ auth = [set |-> TRUE, value |-> AuthData]
    /\ calls = <<SuccessCall>>

====
